---- MODULE Spec2Model ----
(***************************************************************************)
(* A model of scripts/build_data.py: the column resolver, the code        *)
(* cleaner, the numeric coercer, the item classifier, the reference        *)
(* lookup builder and the driver `main` that enriches, filters,            *)
(* aggregates and writes.                                                  *)
(*                                                                         *)
(* Text is modelled by TLA+ strings, read character by character           *)
(* (SubSeq(s, i, i)), so that upper-casing, trimming, numeric parsing and  *)
(* regular-expression search are computed as the code computes them.       *)
(* An Optional value is the empty tuple (None / NaN / NaT) or a one-tuple. *)
(***************************************************************************)
EXTENDS Integers, Sequences, FiniteSets, TLC

VARIABLES
    pc,                 \* position of the running operation
    cols,               \* list(df.columns) handed to the column resolver
    candidates,         \* the alias list handed to _find_col
    found,              \* what _find_col returned
    cmap,               \* what infer_column_map returned (or raised)
    product_name_norm,  \* the text handed to _classify_item
    item,               \* what _classify_item returned
    repo,               \* the reference files under --repo-dir
    lookups,            \* what build_lookups returned
    parquet_files,      \* number of files the glob matched
    schema_samples,     \* main: one entry per batch read
    d,                  \* main: the current batch's frame before the filter
    dfs,                \* main: the filtered frames appended so far
    data,               \* main: the unified record set
    kpi,                \* main: the KPI table
    written,            \* main: the artifacts written, in order
    err                 \* the exception that ended the run, if any

vars == <<pc, cols, candidates, found, cmap, product_name_norm, item, repo,
          lookups, parquet_files, schema_samples, d, dfs, data, kpi, written, err>>

(***************************************************************************)
(* Optional values and small helpers                                       *)
(***************************************************************************)
None == <<>>

Some(x) == <<x>>

Range(s) == {s[i] : i \in DOMAIN s}

SeqsUpTo(S, n) == UNION {[1..k -> S] : k \in 0..n}

Min(S) == CHOOSE x \in S : \A y \in S : x <= y

Max(S) == CHOOSE x \in S : \A y \in S : x >= y

(***************************************************************************)
(* Characters of a string                                                  *)
(***************************************************************************)
Ch(s, i) == SubSeq(s, i, i)

LowerAlpha == "abcdefghijklmnopqrstuvwxyzáéíóúñ"

UpperAlpha == "ABCDEFGHIJKLMNOPQRSTUVWXYZÁÉÍÓÚÑ"

Digits == "0123456789"

PosIn(c, alpha) ==
    IF \E i \in 1..Len(alpha) : Ch(alpha, i) = c
    THEN CHOOSE i \in 1..Len(alpha) : Ch(alpha, i) = c
    ELSE 0

CharsOf(alpha) == {Ch(alpha, i) : i \in 1..Len(alpha)}

DigitChars == CharsOf(Digits)

IsDigit(c) == c \in DigitChars

UpperTable == [c \in CharsOf(LowerAlpha) |-> Ch(UpperAlpha, PosIn(c, LowerAlpha))]

LowerTable == [c \in CharsOf(UpperAlpha) |-> Ch(LowerAlpha, PosIn(c, UpperAlpha))]

UpperChar(c) == IF c \in DOMAIN UpperTable THEN UpperTable[c] ELSE c

LowerChar(c) == IF c \in DOMAIN LowerTable THEN LowerTable[c] ELSE c

\* str.upper()
RECURSIVE Upper(_)
Upper(s) == IF s = "" THEN "" ELSE UpperChar(Ch(s, 1)) \o Upper(Tail(s))

\* str.lower()
RECURSIVE Lower(_)
Lower(s) == IF s = "" THEN "" ELSE LowerChar(Ch(s, 1)) \o Lower(Tail(s))

(***************************************************************************)
(* _find_col                                                               *)
(***************************************************************************)
\* up = {c.upper(): c for c in cols}: a later header replaces an earlier one
\* with the same upper-cased form.
UpDict(cs) ==
    [u \in {Upper(cs[i]) : i \in DOMAIN cs} |->
        cs[Max({i \in DOMAIN cs : Upper(cs[i]) = u})]]

\* for cand in candidates: c = cand.upper(); if c in up: return up[c]
RECURSIVE FindFrom(_, _, _)
FindFrom(up, cands, i) ==
    IF i > Len(cands) THEN None
    ELSE LET c == Upper(cands[i])
         IN  IF c \in DOMAIN up THEN Some(up[c]) ELSE FindFrom(up, cands, i + 1)

\* A resolver that walks the headers first and the aliases second.
_find_col_header_order(cs, cands) ==
    LET hit == {j \in DOMAIN cs : \E i \in DOMAIN cands : Upper(cands[i]) = Upper(cs[j])}
    IN  IF hit = {} THEN None ELSE Some(cs[Min(hit)])

_find_col(cs, cands) == FindFrom(UpDict(cs), cands, 1)

(***************************************************************************)
(* DEFAULT_SYNONYMS and infer_column_map                                   *)
(***************************************************************************)
DEFAULT_SYNONYMS ==
    [FECHA |-> <<"FECHA", "FECHA_RECETA", "FEC_RECETA", "FEC_EMI", "FECHA_EMISION", "DATE">>,
     COD_PROD |-> <<"COD_PRODUCTO", "COD_PROD", "COD_MEDICAMENTO", "CODIGO_PRODUCTO",
                    "COD_ITEM", "ITEM", "COD", "MAXCOD">>,
     CANTIDAD |-> <<"CANTIDAD", "CANT", "QTY", "CANT_SOL", "CANT_ENT", "CANT_DISP",
                    "CANTIDAD_ENTREGADA">>,
     ALMACEN |-> <<"ALMACEN", "DEPOSITO", "FARMACIA", "BODEGA", "ALM", "ALMACEN_ORIGEN",
                   "ALMACEN_DESTINO", "COD_ALMACEN", "ALMACEN_CODIGO">>,
     SERVICIO |-> <<"SERVICIO", "DEPENDENCIA", "UNIDAD", "SECTOR", "AREA", "SALA">>,
     COD_MEDICO |-> <<"COD_MEDICO", "COD_PROF", "COD_PRESCRIPTOR", "ID_MEDICO", "MEDICO_COD",
                      "CÓDIGO_DEL_MÉDICO", "CODIGO_DEL_MEDICO">>,
     ID_PACIENTE |-> <<"CEDULA", "CI", "NRO_DOC", "DOCUMENTO", "PACIENTE_CI", "ID_PACIENTE",
                       "CÉDULAPACIENTE", "CEDULAPACIENTE">>,
     DESC_PROD |-> <<"DESC_PRODUCTO", "DESCRIPCION", "PRODUCTO", "NOMBRE_PRODUCTO", "ITEM_DESC",
                     "MEDICAMENTO", "TEXTOBREVEMEDICAMENTO">>]

\* The required logical fields, in the order line 138 lists them.
RequiredFields == <<"FECHA", "COD_PROD", "CANTIDAD">>

OptionalFields == <<"ALMACEN", "SERVICIO", "COD_MEDICO", "ID_PACIENTE", "DESC_PROD">>

AllFields == Range(RequiredFields) \cup Range(OptionalFields)

\* The frozen dataclass ColumnMap: one Optional header per logical field.
ColumnMap(cs) == [f \in AllFields |-> _find_col(cs, DEFAULT_SYNONYMS[f])]

\* missing = [k for k, v in [("FECHA", fecha), ...] if v is None]
MissingRequired(cs) ==
    SelectSeq(RequiredFields, LAMBDA k : _find_col(cs, DEFAULT_SYNONYMS[k]) = None)

\* A resolver that only insists on the date column.
infer_column_map_date_only(cs) ==
    IF _find_col(cs, DEFAULT_SYNONYMS["FECHA"]) = None
    THEN [raised |-> TRUE, missing |-> <<"FECHA">>, headers |-> cs, fields |-> None]
    ELSE [raised |-> FALSE, missing |-> <<>>, headers |-> cs, fields |-> Some(ColumnMap(cs))]

\* Raises ValueError naming the unresolved required fields and the observed
\* headers, or returns the ColumnMap.
infer_column_map(cs) ==
    IF MissingRequired(cs) # <<>>
    THEN [raised |-> TRUE, missing |-> MissingRequired(cs), headers |-> cs, fields |-> None]
    ELSE [raised |-> FALSE, missing |-> <<>>, headers |-> cs, fields |-> Some(ColumnMap(cs))]

(***************************************************************************)
(* String operations of the cleaners                                       *)
(***************************************************************************)
\* str.strip(): the pools hold no whitespace other than the space.
RECURSIVE LStrip(_)
LStrip(s) == IF s # "" /\ Ch(s, 1) = " " THEN LStrip(Tail(s)) ELSE s

RECURSIVE RStrip(_)
RStrip(s) == IF s # "" /\ Ch(s, Len(s)) = " " THEN RStrip(SubSeq(s, 1, Len(s) - 1)) ELSE s

Strip(s) == RStrip(LStrip(s))

\* str.replace(a, b, regex=False) for one character a.
RECURSIVE ReplaceChar(_, _, _)
ReplaceChar(s, a, b) ==
    IF s = "" THEN ""
    ELSE (IF Ch(s, 1) = a THEN b ELSE Ch(s, 1)) \o ReplaceChar(Tail(s), a, b)

\* The characters of s that are in the string keep, in order.
RECURSIVE KeepChars(_, _)
KeepChars(s, keep) ==
    IF s = "" THEN ""
    ELSE (IF Ch(s, 1) \in keep THEN Ch(s, 1) ELSE "") \o KeepChars(Tail(s), keep)

NumericChars == CharsOf("0123456789.-")

AllDigits(s) == \A i \in 1..Len(s) : IsDigit(Ch(s, i))

\* A cell of a frame: a string, None (an absent column, a null of an object
\* column) or NaN (a null of a float column, an empty CSV cell).
NoneCell == <<"None">>

NaNCell == <<"NaN">>

Str(s) == <<"str", s>>

\* Series.astype(str) of pandas 1.x/2.x: None becomes "None", NaN "nan".
AsStr(cell) ==
    IF cell = NoneCell THEN "None"
    ELSE IF cell = NaNCell THEN "nan"
    ELSE cell[2]

\* pd.to_numeric(errors="coerce") on one string: None stands for NaN. The
\* decimal forms [+-]digits[.digits] and [+-].digits parse; "nan", "None",
\* "" and other text do not. (Exponents and infinities are not in the pools.)
ParseDecimal(s) ==
    LET signed == s # "" /\ Ch(s, 1) \in {"-", "+"}
        body   == IF signed THEN Tail(s) ELSE s
        dot    == PosIn(".", body)
        ip     == IF dot = 0 THEN body ELSE SubSeq(body, 1, dot - 1)
        fp     == IF dot = 0 THEN "" ELSE SubSeq(body, dot + 1, Len(body))
    IN  IF AllDigits(ip) /\ AllDigits(fp) /\ Len(ip) + Len(fp) > 0
        THEN Some([neg |-> signed /\ Ch(s, 1) = "-", int |-> ip, frac |-> fp])
        ELSE None

RECURSIVE StripLeadingZeros(_)
StripLeadingZeros(s) ==
    IF Len(s) > 1 /\ Ch(s, 1) = "0" THEN StripLeadingZeros(Tail(s))
    ELSE IF s = "" THEN "0" ELSE s

\* str(int(v)): the integer part, truncated toward zero.
IntStr(n) ==
    LET digits == StripLeadingZeros(n.int)
    IN  IF n.neg /\ digits # "0" THEN "-" \o digits ELSE digits

\* re.sub(r"\.0+$", "", s)
RECURSIVE RStripZeros(_)
RStripZeros(s) ==
    IF s # "" /\ Ch(s, Len(s)) = "0" THEN RStripZeros(SubSeq(s, 1, Len(s) - 1)) ELSE s

StripDotZeros(s) ==
    LET t == RStripZeros(s)
    IN  IF t # s /\ t # "" /\ Ch(t, Len(t)) = "." THEN SubSeq(t, 1, Len(t) - 1) ELSE s

(***************************************************************************)
(* _clean_code_str, applied to one cell of the Series                      *)
(***************************************************************************)
_clean_code_str(cell) ==
    LET s1  == ReplaceChar(Strip(AsStr(cell)), ",", ".")
        s   == IF s1 # "" /\ Ch(s1, 1) = "." THEN "0" \o s1 ELSE s1
        n   == ParseDecimal(s)
        out == IF n = None THEN "" ELSE IntStr(n[1])
        kept == IF out # "" THEN out ELSE s
    IN  StripDotZeros(kept)

(***************************************************************************)
(* _coerce_numeric, applied to one cell; quantities are carried in         *)
(* hundredths (the pools hold at most two decimals)                        *)
(***************************************************************************)
RECURSIVE NatOf(_)
NatOf(s) ==
    IF s = "" THEN 0
    ELSE NatOf(SubSeq(s, 1, Len(s) - 1)) * 10 + (PosIn(Ch(s, Len(s)), Digits) - 1)

Hundredths(n) ==
    LET f == SubSeq(n.frac \o "00", 1, 2)
        v == NatOf(n.int) * 100 + NatOf(f)
    IN  IF n.neg THEN 0 - v ELSE v

_coerce_numeric(cell) ==
    LET x == KeepChars(ReplaceChar(AsStr(cell), ",", "."), NumericChars)
        n == ParseDecimal(x)
    IN  IF n = None THEN None ELSE Some(Hundredths(n[1]))

(***************************************************************************)
(* pd.to_datetime(errors="coerce") and .dt.floor("D"): a parsed date is    *)
(* its day of the year 2025; the pools hold ISO dates of 2025 and text     *)
(* that is no date                                                         *)
(***************************************************************************)
DaysBeforeMonth == <<0, 31, 59, 90, 120, 151, 181, 212, 243, 273, 304, 334>>

DaysInMonth == <<31, 28, 31, 30, 31, 30, 31, 31, 30, 31, 30, 31>>

to_datetime(cell) ==
    LET s == AsStr(cell)
    IN  IF cell \notin {NoneCell, NaNCell} /\ Len(s) = 10
           /\ SubSeq(s, 1, 5) = "2025-" /\ Ch(s, 8) = "-"
           /\ AllDigits(SubSeq(s, 6, 7)) /\ AllDigits(SubSeq(s, 9, 10))
           /\ NatOf(SubSeq(s, 6, 7)) \in 1..12
           /\ NatOf(SubSeq(s, 9, 10)) \in 1..DaysInMonth[NatOf(SubSeq(s, 6, 7))]
        THEN Some(DaysBeforeMonth[NatOf(SubSeq(s, 6, 7))] + NatOf(SubSeq(s, 9, 10)))
        ELSE None

(***************************************************************************)
(* _norm_text                                                              *)
(***************************************************************************)
Accented == "áéíóúñ"

Unaccented == "aeioun"

\* NFKD decomposition followed by dropping the combining marks.
UnaccentTable == [c \in CharsOf(Accented) |-> Ch(Unaccented, PosIn(c, Accented))]

UnaccentChar(c) == IF c \in DOMAIN UnaccentTable THEN UnaccentTable[c] ELSE c

NormKept == CharsOf("abcdefghijklmnopqrstuvwxyz0123456789 ")

\* re.sub(r"[^a-z0-9\s]+", " ", s), one character at a time (the run of
\* spaces it leaves is collapsed by the next step).
NormChar(c) ==
    LET u == UnaccentChar(LowerChar(c))
    IN  IF u \in NormKept THEN u ELSE " "

RECURSIVE MapNorm(_)
MapNorm(s) == IF s = "" THEN "" ELSE NormChar(Ch(s, 1)) \o MapNorm(Tail(s))

\* re.sub(r"\s+", " ", s)
RECURSIVE CollapseSpaces(_)
CollapseSpaces(s) ==
    IF Len(s) < 2 THEN s
    ELSE IF Ch(s, 1) = " " /\ Ch(s, 2) = " " THEN CollapseSpaces(Tail(s))
    ELSE Ch(s, 1) \o CollapseSpaces(Tail(s))

_norm_text(s) == Strip(CollapseSpaces(MapNorm(Strip(s))))

(***************************************************************************)
(* re.search for the pattern forms CRITICAL_PATTERNS uses. A pattern is a  *)
(* sequence of atoms; a position p of a text lies before its character     *)
(* p + 1.                                                                  *)
(***************************************************************************)
B == <<"b">>             \* \b

L(w) == <<"lit", w>>     \* literal text

O(w) == <<"opt", w>>     \* (w)?

A(v, w) == <<"alt", v, w>>   \* (v|w)

ANY == <<"any">>         \* .*

WS == <<"ws">>           \* \s*

WordChars == CharsOf("abcdefghijklmnopqrstuvwxyzABCDEFGHIJKLMNOPQRSTUVWXYZ0123456789_")

IsWordChar(c) == c \in WordChars

AtBoundary(s, p) ==
    (p > 0 /\ IsWordChar(Ch(s, p))) # (p < Len(s) /\ IsWordChar(Ch(s, p + 1)))

AfterLit(s, P, w) ==
    {p + Len(w) : p \in {q \in P : q + Len(w) <= Len(s) /\ SubSeq(s, q + 1, q + Len(w)) = w}}

\* The positions where a match of the atom can end, having started in P.
AfterAtom(s, P, a) ==
    CASE a[1] = "b"   -> {p \in P : AtBoundary(s, p)}
      [] a[1] = "lit" -> AfterLit(s, P, a[2])
      [] a[1] = "opt" -> P \cup AfterLit(s, P, a[2])
      [] a[1] = "alt" -> AfterLit(s, P, a[2]) \cup AfterLit(s, P, a[3])
      [] a[1] = "any" -> {q \in 0..Len(s) : \E p \in P : p <= q}
      [] a[1] = "ws"  -> {q \in 0..Len(s) : \E p \in P :
                             p <= q /\ \A k \in (p + 1)..q : Ch(s, k) = " "}

RECURSIVE AfterAtoms(_, _, _, _)
AfterAtoms(s, P, pat, i) ==
    IF i > Len(pat) \/ P = {} THEN P
    ELSE AfterAtoms(s, AfterAtom(s, P, pat[i]), pat, i + 1)

\* re.search(pat, s) is not None: unanchored, a match may start anywhere.
Search(pat, s) == AfterAtoms(s, 0..Len(s), pat, 1) # {}

(***************************************************************************)
(* CRITICAL_PATTERNS, in declaration order, and _classify_item             *)
(***************************************************************************)
CRITICAL_PATTERNS == <<
    [label |-> "ALCOHOL", pats |-> <<
        <<B, L("alcohol"), B>> >>],                               \* \balcohol\b
    [label |-> "GUANTES", pats |-> <<
        <<B, L("guante"), O("s"), B>> >>],                        \* \bguante(s)?\b
    [label |-> "SOLUCION FISIOLOGICA", pats |-> <<
        <<B, L("solucion"), B, ANY, B, L("fisiologic"), A("a", "o"), B>>,
                                                  \* \bsolucion\b.*\bfisiologic(a|o)\b
        <<B, L("fisiologic"), A("a", "o"), B>> >>],               \* \bfisiologic(a|o)\b
    [label |-> "IOP SOLUCION", pats |-> <<
        <<B, L("iop"), B, ANY, B, L("solucion"), B>>,             \* \biop\b.*\bsolucion\b
        <<B, L("iop"), B, ANY, B, L("sol"), B>> >>],              \* \b(iop)\b.*\bsol\b
    [label |-> "IOP JABON", pats |-> <<
        <<B, L("iop"), B, ANY, B, L("jabon"), B>>,                \* \biop\b.*\bjabon\b
        <<B, L("iop"), B, ANY, B, L("soap"), B>> >>],             \* \biop\b.*\bsoap\b
    [label |-> "JERINGA 5ML", pats |-> <<
        <<B, L("jeringa"), O("s"), B, ANY, B, L("5"), B, WS, L("ml"), B>>,
                                                  \* \bjeringa(s)?\b.*\b5\b\s*ml\b
        <<B, L("5"), WS, L("ml"), B, ANY, B, L("jeringa"), B>> >>],
                                                  \* \b5\s*ml\b.*\bjeringa\b
    [label |-> "JERINGA 10ML", pats |-> <<
        <<B, L("jeringa"), O("s"), B, ANY, B, L("10"), B, WS, L("ml"), B>>,
                                                  \* \bjeringa(s)?\b.*\b10\b\s*ml\b
        <<B, L("10"), WS, L("ml"), B, ANY, B, L("jeringa"), B>> >>],
                                                  \* \b10\s*ml\b.*\bjeringa\b
    [label |-> "ALGODON", pats |-> <<
        <<B, L("algodon"), B>> >>],                               \* \balgodon\b
    [label |-> "MACROGOTERO", pats |-> <<
        <<B, L("macrogotero"), B>>,                               \* \bmacrogotero\b
        <<B, L("macro"), B, ANY, B, L("gote"), O("ro"), B>> >>],  \* \bmacro\b.*\bgote(ro)?\b
    [label |-> "MICROGOTERO", pats |-> <<
        <<B, L("microgotero"), B>>,                               \* \bmicrogotero\b
        <<B, L("micro"), B, ANY, B, L("gote"), O("ro"), B>> >>],  \* \bmicro\b.*\bgote(ro)?\b
    [label |-> "VOLUTROL", pats |-> <<
        <<B, L("volutrol"), B>> >>],                              \* \bvolutrol\b
    [label |-> "CLORHEXIDINA", pats |-> <<
        <<B, L("clorhexidina"), B>>,                              \* \bclorhexidina\b
        <<B, L("chlorhexidine"), B>> >>],                         \* \bchlorhexidine\b
    [label |-> "PUNZOCATH 18", pats |-> <<
        <<B, L("punzocath"), B, ANY, B, L("18"), B>>,             \* \bpunzocath\b.*\b18\b
        <<B, L("punzo"), B, ANY, B, L("18"), B>> >>],             \* \bpunzo\b.*\b18\b
    [label |-> "PUNZOCATH 20", pats |-> <<
        <<B, L("punzocath"), B, ANY, B, L("20"), B>>,             \* \bpunzocath\b.*\b20\b
        <<B, L("punzo"), B, ANY, B, L("20"), B>> >>],             \* \bpunzo\b.*\b20\b
    [label |-> "PUNZOCATH 22", pats |-> <<
        <<B, L("punzocath"), B, ANY, B, L("22"), B>>,             \* \bpunzocath\b.*\b22\b
        <<B, L("punzo"), B, ANY, B, L("22"), B>> >>] >>           \* \bpunzo\b.*\b22\b

\* Whether any pattern of the i-th label matches.
LabelMatches(i, text) ==
    \E j \in DOMAIN CRITICAL_PATTERNS[i].pats : Search(CRITICAL_PATTERNS[i].pats[j], text)

\* for label, pats in CRITICAL_PATTERNS.items(): for pat in pats: ... return label
RECURSIVE ClassifyFrom(_, _)
ClassifyFrom(text, i) ==
    IF i > Len(CRITICAL_PATTERNS) THEN None
    ELSE IF LabelMatches(i, text) THEN Some(CRITICAL_PATTERNS[i].label)
    ELSE ClassifyFrom(text, i + 1)

\* A classifier in which the last matching label wins.
_classify_item_last_wins(text) ==
    LET hit == {i \in DOMAIN CRITICAL_PATTERNS : LabelMatches(i, text)}
    IN  IF hit = {} THEN None ELSE Some(CRITICAL_PATTERNS[Max(hit)].label)

_classify_item(text) == ClassifyFrom(text, 1)

(***************************************************************************)
(* The values the variables of an operation hold while another one runs    *)
(***************************************************************************)
IdleResolver == cols = <<>> /\ candidates = <<>> /\ found = None /\ cmap = None

IdleClassifier == product_name_norm = "" /\ item = None

IdleLookups == repo = None /\ lookups = None

IdleMain ==
    /\ parquet_files = 0 /\ schema_samples = <<>> /\ d = <<>> /\ dfs = <<>>
    /\ written = <<>> /\ err = None

IdleAggregates == data = <<>> /\ kpi = <<>>

\* Two strings that differ at most in the case of their letters.
EqIgnoreCase(a, b) ==
    Len(a) = Len(b) /\ \A i \in 1..Len(a) : LowerChar(Ch(a, i)) = LowerChar(Ch(b, i))

(***************************************************************************)
(* SpecFindCol: _find_col on every header list and alias list of the pools *)
(***************************************************************************)
MaxHeaders == 2

MaxCands == 2

\* "FECHA_RECETA" and "XFECHA" contain the alias "FECHA"; "FECHA" contains
\* the alias "CHA".
HeaderPool == {"FECHA", "fecha", "Fecha", "Date", "FECHA_RECETA", "XFECHA", "COD"}

AliasPool == {"FECHA", "DATE", "cod", "CHA"}

InitFindCol ==
    /\ pc = "call"
    /\ cols \in SeqsUpTo(HeaderPool, MaxHeaders)
    /\ candidates \in SeqsUpTo(AliasPool, MaxCands)
    /\ found = None /\ cmap = None
    /\ IdleClassifier /\ IdleLookups /\ IdleMain /\ IdleAggregates

FindCol ==
    /\ pc = "call"
    /\ found' = _find_col(cols, candidates)
    /\ pc' = "done"
    /\ UNCHANGED <<cols, candidates, cmap, product_name_norm, item, repo, lookups,
                   parquet_files, schema_samples, d, dfs, data, kpi, written, err>>

NextFindCol == FindCol

SpecFindCol == InitFindCol /\ [][NextFindCol]_vars

\* The aliases that equal some observed header, case aside.
MatchingAliases(cs, cands) ==
    {i \in DOMAIN cands : \E j \in DOMAIN cs : EqIgnoreCase(cs[j], cands[i])}

\* C3: _find_col returns an observed header equal, case aside, to the earliest
\* alias that equals some header, and None exactly when no alias equals any
\* header; neither the header's position nor a substring match decides.
C3_EarliestAliasWins ==
    pc = "done" =>
        LET M == MatchingAliases(cols, candidates)
        IN  IF M = {} THEN found = None
            ELSE /\ found # None
                 /\ found[1] \in Range(cols)
                 /\ EqIgnoreCase(found[1], candidates[Min(M)])

\* Two headers match two aliases, and the later header is returned because
\* its alias comes first.
C3_Witness ==
    /\ pc = "done" /\ Len(cols) = 2 /\ Len(candidates) = 2
    /\ EqIgnoreCase(cols[1], candidates[2])
    /\ EqIgnoreCase(cols[2], candidates[1])
    /\ ~EqIgnoreCase(cols[1], cols[2])
    /\ found = Some(cols[2])

(***************************************************************************)
(* SpecColumns: infer_column_map on every header list of the pool          *)
(***************************************************************************)
MaxCols == 3

ColumnPool == {"FEC_EMI", "fecha", "cod_item", "MAXCOD", "Cant", "SERVICIO", "CI", "OTRO"}

InitColumns ==
    /\ pc = "call"
    /\ cols \in SeqsUpTo(ColumnPool, MaxCols)
    /\ candidates = <<>> /\ found = None /\ cmap = None
    /\ IdleClassifier /\ IdleLookups /\ IdleMain /\ IdleAggregates

InferColumnMap ==
    /\ pc = "call"
    /\ cmap' = infer_column_map(cols)
    /\ pc' = "done"
    /\ UNCHANGED <<cols, candidates, found, product_name_norm, item, repo, lookups,
                   parquet_files, schema_samples, d, dfs, data, kpi, written, err>>

NextColumns == InferColumnMap

SpecColumns == InitColumns /\ [][NextColumns]_vars

\* Whether some synonym of the logical field equals some header, case aside.
HasSynonym(f, cs) == MatchingAliases(cs, DEFAULT_SYNONYMS[f]) # {}

\* C2: infer_column_map raises exactly when a required field has no synonym
\* among the headers, naming exactly those fields; an unmatched optional field
\* is bound to None; on success the three required fields are bound to three
\* distinct observed headers.
C2_RaisesExactlyOnMissingRequired ==
    pc = "done" =>
        LET unresolved == {f \in Range(RequiredFields) : ~HasSynonym(f, cols)}
        IN  /\ cmap.raised <=> unresolved # {}
            /\ cmap.raised =>
                  /\ Range(cmap.missing) = unresolved
                  /\ Len(cmap.missing) = Cardinality(unresolved)
                  /\ cmap.headers = cols
            /\ ~cmap.raised =>
                  LET f == cmap.fields[1]
                  IN  /\ \A r \in Range(RequiredFields) :
                            f[r] # None /\ f[r][1] \in Range(cols)
                      /\ Cardinality({f[r][1] : r \in Range(RequiredFields)}) = 3
                      /\ \A o \in Range(OptionalFields) :
                            ~HasSynonym(o, cols) => f[o] = None

\* Two required fields are unresolved while an optional one is matched.
C2_Witness ==
    /\ pc = "done" /\ cmap.raised
    /\ cmap.missing = <<"FECHA", "CANTIDAD">>
    /\ HasSynonym("SERVICIO", cols)

(***************************************************************************)
(* SpecClassify: _classify_item on every normalized text of the vocabulary *)
(***************************************************************************)
MaxWords == 3

Vocabulary == {"alcohol", "guantes", "solucion", "fisiologica", "iop", "jeringa",
               "5", "ml", "paracetamol"}

RECURSIVE Join(_)
Join(ws) ==
    IF ws = <<>> THEN ""
    ELSE IF Len(ws) = 1 THEN ws[1]
    ELSE ws[1] \o " " \o Join(Tail(ws))

InitClassify ==
    /\ pc = "call"
    /\ product_name_norm \in
          {t \in {Join(ws) : ws \in SeqsUpTo(Vocabulary, MaxWords)} : _norm_text(t) = t}
    /\ item = None
    /\ IdleResolver /\ IdleLookups /\ IdleMain /\ IdleAggregates

ClassifyItem ==
    /\ pc = "call"
    /\ item' = _classify_item(product_name_norm)
    /\ pc' = "done"
    /\ UNCHANGED <<cols, candidates, found, cmap, product_name_norm, repo, lookups,
                   parquet_files, schema_samples, d, dfs, data, kpi, written, err>>

NextClassify == ClassifyItem

SpecClassify == InitClassify /\ [][NextClassify]_vars

\* The labels, by declaration index, with a pattern that matches the text.
MatchingLabels(text) ==
    {i \in DOMAIN CRITICAL_PATTERNS :
        \E j \in DOMAIN CRITICAL_PATTERNS[i].pats : Search(CRITICAL_PATTERNS[i].pats[j], text)}

\* C4: _classify_item returns the earliest-declared label among those with a
\* matching pattern, and None exactly when no pattern of any label matches.
C4_FirstDeclaredLabelWins ==
    pc = "done" =>
        LET hit == MatchingLabels(product_name_norm)
        IN  IF hit = {} THEN item = None
            ELSE item = Some(CRITICAL_PATTERNS[Min(hit)].label)

\* A text that matches SOLUCION FISIOLOGICA and IOP SOLUCION gets the former.
C4_Witness ==
    /\ pc = "done"
    /\ {3, 4} \subseteq MatchingLabels(product_name_norm)
    /\ item = Some("SOLUCION FISIOLOGICA")

(***************************************************************************)
(* Frames: a frame has its column names and its rows, each a tuple of      *)
(* cells in column order. A frame of the pools has at least one row.       *)
(***************************************************************************)
RowsUpTo(S, n) == UNION {[1..k -> S] : k \in 1..n}

IndexOf(names, name) == Min({i \in DOMAIN names : names[i] = name})

\* df[name]
Column(df, name) == [i \in DOMAIN df.rows |-> df.rows[i][IndexOf(df.columns, name)]]

\* {a, b}.issubset(df.columns)
HasColumns(df, names) == names \subseteq Range(df.columns)

\* dict(zip(key, val)): the last row of a key wins.
DictZip(key, val) ==
    [k \in Range(key) |-> val[Max({i \in DOMAIN key : key[i] = k})]]

\* Series.astype(str).str.strip()
StrStrip(series) == [i \in DOMAIN series |-> Strip(AsStr(series[i]))]

CleanSeries(series) == [i \in DOMAIN series |-> _clean_code_str(series[i])]

(***************************************************************************)
(* build_lookups                                                           *)
(***************************************************************************)
\* One reference file read into a dict when it exists and has both columns.
LoadDict(file, keycol, valcol, clean) ==
    IF file # None /\ HasColumns(file[1], {keycol, valcol})
    THEN DictZip(IF clean THEN CleanSeries(Column(file[1], keycol))
                 ELSE StrStrip(Column(file[1], keycol)),
                 StrStrip(Column(file[1], valcol)))
    ELSE <<>>

\* A merge in which the supplementary file overwrites.
MergeRecurrentesOverwriting(pac, rec) ==
    [k \in DOMAIN pac \cup {x \in DOMAIN rec : x # ""} |->
        IF k \in DOMAIN rec /\ k # "" THEN rec[k] ELSE pac[k]]

\* for k, v in dict(zip(key, val)).items():
\*     if k and (k not in out["pac"] or not out["pac"][k]): out["pac"][k] = v
MergeRecurrentes(pac, rec) ==
    [k \in DOMAIN pac \cup {x \in DOMAIN rec : x # ""} |->
        IF k \in DOMAIN rec /\ k # "" /\ (k \notin DOMAIN pac \/ pac[k] = "")
        THEN rec[k] ELSE pac[k]]

\* str.split(";", n=1, expand=True) of one cell: the code and the description
\* (None when the cell holds no ";").
SplitCell(cell) ==
    LET s == AsStr(cell)
        k == PosIn(";", s)
    IN  IF k = 0 THEN <<Str(s), NoneCell>>
        ELSE <<Str(SubSeq(s, 1, k - 1)), Str(SubSeq(s, k + 1, Len(s)))>>

\* The warehouse file: one combined column, or the two named columns.
LoadAlmacenes(file) ==
    IF file = None THEN <<>>
    ELSE IF Len(file[1].columns) = 1 /\ PosIn(";", file[1].columns[1]) > 0
    THEN LET tmp == [columns |-> <<"almacen_codigo", "almacen_descripcion">>,
                     rows |-> [i \in DOMAIN file[1].rows |-> SplitCell(file[1].rows[i][1])]]
         IN  DictZip(CleanSeries(Column(tmp, "almacen_codigo")),
                     StrStrip(Column(tmp, "almacen_descripcion")))
    ELSE LoadDict(file, "almacen_codigo", "almacen_descripcion", TRUE)

PacPrimary(r) == LoadDict(r.pac, "CédulaPaciente", "NombreyApellido", TRUE)

PacRecurrentes(r) == LoadDict(r.rec, "CédulaRecurrente", "NombreRecurrente", TRUE)

build_lookups(r) ==
    [prod |-> LoadDict(r.prod, "maxcod", "TextoBreveMedicamento", FALSE),
     med  |-> LoadDict(r.med, "CódigodelMédico", "NombredelMédico", TRUE),
     pac  |-> IF r.rec # None /\ HasColumns(r.rec[1], {"CédulaRecurrente", "NombreRecurrente"})
              THEN MergeRecurrentes(PacPrimary(r), PacRecurrentes(r))
              ELSE PacPrimary(r),
     alm  |-> LoadAlmacenes(r.alm)]

(***************************************************************************)
(* SpecLookups: build_lookups on every repository of the pools             *)
(***************************************************************************)
MaxRefRows == 2

Frame(columns, rows) == Some([columns |-> columns, rows |-> rows])

\* A present product file (one code padded with spaces, one empty key cell)
\* or none.
ProdFiles ==
    {None,
     Frame(<<"maxcod", "TextoBreveMedicamento">>,
           <<<<Str(" 700 "), Str("Alcohol 70")>>, <<NaNCell, Str("Guantes")>>>>)}

\* A present prescriber file (one float-looking code, one blank key cell) or
\* one without the expected columns.
MedFiles ==
    {Frame(<<"codigo", "nombre">>, <<<<Str("27491"), Str("DR A")>>>>),
     Frame(<<"CódigodelMédico", "NombredelMédico">>,
           <<<<Str("27491.0"), Str("DR A")>>, <<Str("  "), Str("DR B")>>>>)}

\* The warehouse file: absent, one combined column, or two named columns.
AlmFiles ==
    {None,
     Frame(<<"almacen_codigo;almacen_descripcion">>,
           <<<<Str("1;DEPOSITO")>>, <<Str(";SIN CODIGO")>>>>),
     Frame(<<"almacen_codigo", "almacen_descripcion">>,
           <<<<Str("2.0"), Str("FARMACIA")>>>>)}

PacRows ==
    {<<Str("123"), Str("ANA")>>, <<Str("123.0"), Str("  ")>>,
     <<Str(" "), Str("EVA")>>, <<Str("789"), NaNCell>>}

RecRows ==
    {<<Str("123"), Str("OTHER")>>, <<Str("456"), Str("LUIS")>>,
     <<Str(""), Str("X")>>, <<NaNCell, Str("Y")>>}

PacFiles ==
    {None} \cup {Frame(<<"CédulaPaciente", "NombreyApellido">>, rows) :
                    rows \in RowsUpTo(PacRows, MaxRefRows)}

RecFiles ==
    {None} \cup {Frame(<<"CédulaRecurrente", "NombreRecurrente">>, rows) :
                    rows \in RowsUpTo(RecRows, MaxRefRows)}

InitLookups ==
    /\ pc = "call"
    /\ repo \in [prod : ProdFiles, med : MedFiles, pac : PacFiles, rec : RecFiles,
                 alm : AlmFiles]
    /\ lookups = None
    /\ IdleResolver /\ IdleClassifier /\ IdleMain /\ IdleAggregates

BuildLookups ==
    /\ pc = "call"
    /\ lookups' = build_lookups(repo)
    /\ pc' = "done"
    /\ UNCHANGED <<cols, candidates, found, cmap, product_name_norm, item, repo,
                   parquet_files, schema_samples, d, dfs, data, kpi, written, err>>

NextLookups == BuildLookups

SpecLookups == InitLookups /\ [][NextLookups]_vars

\* C1: merging the supplementary patient file keeps every non-blank value of
\* the primary map; an entry differs from the primary map only for a non-empty
\* supplementary key that the primary map lacks or maps to a blank value.
C1_SupplementaryOnlyFillsGaps ==
    pc = "done" =>
        LET primary == PacPrimary(repo)
            rec     == PacRecurrentes(repo)
            merged  == lookups.pac
        IN  /\ DOMAIN primary \subseteq DOMAIN merged
            /\ \A k \in DOMAIN primary : primary[k] # "" => merged[k] = primary[k]
            /\ \A k \in DOMAIN merged :
                  (k \notin DOMAIN primary \/ merged[k] # primary[k]) =>
                      /\ k # "" /\ k \in DOMAIN rec /\ merged[k] = rec[k]
                      /\ (k \notin DOMAIN primary \/ primary[k] = "")

\* The primary map holds "123" with a non-blank value, the supplementary file
\* offers another value for "123" and a new key "456".
C1_Witness ==
    /\ pc = "done"
    /\ "123" \in DOMAIN PacPrimary(repo) /\ PacPrimary(repo)["123"] = "ANA"
    /\ "123" \in DOMAIN PacRecurrentes(repo) /\ PacRecurrentes(repo)["123"] = "OTHER"
    /\ "456" \in DOMAIN PacRecurrentes(repo)
    /\ lookups.pac = [k \in {"123", "456"} |-> IF k = "123" THEN "ANA" ELSE "LUIS"]

\* The key cells of the rows a lookup domain is read from.
KeyCells(r, dom) ==
    LET cells(file, keycol) ==
            IF file # None /\ keycol \in Range(file[1].columns)
            THEN Range(Column(file[1], keycol)) ELSE {}
    IN  CASE dom = "prod" -> cells(r.prod, "maxcod")
          [] dom = "med"  -> cells(r.med, "CódigodelMédico")
          [] dom = "pac"  -> cells(r.pac, "CédulaPaciente") \cup cells(r.rec, "CédulaRecurrente")
          [] dom = "alm"  ->
                IF r.alm # None /\ Len(r.alm[1].columns) = 1
                THEN {SplitCell(c)[1] : c \in Range(Column(r.alm[1], r.alm[1].columns[1]))}
                ELSE cells(r.alm, "almacen_codigo")

\* C6: no lookup map holds the empty key, and every key comes from a row
\* whose key cell is not null.
C6_NoEmptyOrNullKey ==
    pc = "done" =>
        \A dom \in {"prod", "med", "pac", "alm"} :
            \A k \in DOMAIN lookups[dom] :
                /\ k # ""
                /\ \E c \in KeyCells(repo, dom) :
                      c # NaNCell /\ (IF dom = "prod" THEN Strip(AsStr(c)) ELSE _clean_code_str(c)) = k

(***************************************************************************)
(* main, the body of the loop over the batches (lines 239-297)             *)
(***************************************************************************)
\* The cell of a row under a logical field: df[keep] renamed, and None in the
\* columns the batch does not have (d[col] = None).
FieldCell(columns, fields, row, f) ==
    IF fields[f] = None THEN NoneCell ELSE row[IndexOf(columns, fields[f][1])]

\* A label that ignores the lookup map.
LabelOfIgnoringMap(lookup, code, fallback) == fallback

\* Series.map(lookup).fillna(fallback)
LabelOf(lookup, code, fallback) ==
    IF code \in DOMAIN lookup THEN lookup[code] ELSE fallback

\* Lines 274-289 for one row.
EnrichRow(columns, fields, lk, row) ==
    LET cell(f)  == FieldCell(columns, fields, row, f)
        cod_prod == _clean_code_str(cell("COD_PROD"))
        cod_med  == _clean_code_str(cell("COD_MEDICO"))
        id_pac   == _clean_code_str(cell("ID_PACIENTE"))
        almacen  == _clean_code_str(cell("ALMACEN"))
        nombre   == LabelOf(lk.prod, cod_prod, AsStr(cell("DESC_PROD")))
    IN  [FECHA            |-> to_datetime(cell("FECHA")),
         CANTIDAD         |-> _coerce_numeric(cell("CANTIDAD")),
         COD_PROD         |-> cod_prod,
         COD_MEDICO       |-> cod_med,
         ID_PACIENTE      |-> id_pac,
         ALMACEN          |-> almacen,
         SERVICIO         |-> cell("SERVICIO"),
         DESC_PROD        |-> cell("DESC_PROD"),
         NOMBRE_PROD      |-> nombre,
         NOMBRE_PROD_NORM |-> _norm_text(nombre),
         ITEM_CRITICO     |-> _classify_item(_norm_text(nombre)),
         MEDICO           |-> LabelOf(lk.med, cod_med, cod_med),
         PACIENTE         |-> LabelOf(lk.pac, id_pac, id_pac),
         ALMACEN_DESC     |-> LabelOf(lk.alm, almacen, almacen)]

\* d.dropna(subset=["FECHA"]); d[d["ITEM_CRITICO"].notna()]
KeepRow(r) == r.FECHA # None /\ r.ITEM_CRITICO # None

\* .astype(str).replace({"nan": "", "None": ""})
BlankNulls(s) == IF s \in {"nan", "None"} THEN "" ELSE s

\* Lines 291-295: the rows appended to dfs.
FilterFrame(frame) ==
    LET kept == SelectSeq(frame, KeepRow)
    IN  [i \in DOMAIN kept |->
            [kept[i] EXCEPT !.SERVICIO = BlankNulls(AsStr(@)),
                            !.ALMACEN_DESC = BlankNulls(@)]]

(***************************************************************************)
(* main, the aggregation (lines 299-357); the order of the KPI rows is not  *)
(* modelled, the table is keyed by item                                    *)
(***************************************************************************)
RECURSIVE Concat(_)
Concat(frames) == IF frames = <<>> THEN <<>> ELSE Head(frames) \o Concat(Tail(frames))

\* groupby(...)["CANTIDAD"].sum(): missing quantities are skipped.
RECURSIVE SumQ(_)
SumQ(rows) ==
    IF rows = <<>> THEN 0
    ELSE (IF Head(rows).CANTIDAD = None THEN 0 ELSE Head(rows).CANTIDAD[1]) + SumQ(Tail(rows))

Last7Days == 6

Last30Days == 29

AvgDivisor == 30

\* data[data["FECHA_DIA"].between(start, today_max)] of one item
Window(rows, it, start, end) ==
    SelectSeq(rows, LAMBDA r : r.ITEM_CRITICO = it /\ start <= r.FECHA[1] /\ r.FECHA[1] <= end)

\* A KPI table whose windows end at each item's own latest day.
KpiTablePerItemAnchor(rows) ==
    [it \in {rows[i].ITEM_CRITICO : i \in DOMAIN rows} |->
        LET own == Max({rows[i].FECHA[1] : i \in {j \in DOMAIN rows : rows[j].ITEM_CRITICO = it}})
            q30 == SumQ(Window(rows, it, own - Last30Days, own))
        IN  [Q_TOTAL |-> SumQ(SelectSeq(rows, LAMBDA r : r.ITEM_CRITICO = it)),
             Q_7D |-> SumQ(Window(rows, it, own - Last7Days, own)),
             Q_30D |-> q30,
             AVG_DAILY_30D |-> [num |-> q30, den |-> AvgDivisor]]]

\* kpi: Q_TOTAL, Q_7D and Q_30D per item (0 for an item without a row in the
\* window, by the left merge and fillna(0.0)) and AVG_DAILY_30D, the exact
\* quotient Q_30D / 30.0 kept as a fraction.
KpiTable(rows) ==
    [it \in {rows[i].ITEM_CRITICO : i \in DOMAIN rows} |->
        LET today_max == Max({rows[i].FECHA[1] : i \in DOMAIN rows})
            q30 == SumQ(Window(rows, it, today_max - Last30Days, today_max))
        IN  [Q_TOTAL |-> SumQ(SelectSeq(rows, LAMBDA r : r.ITEM_CRITICO = it)),
             Q_7D |-> SumQ(Window(rows, it, today_max - Last7Days, today_max)),
             Q_30D |-> q30,
             AVG_DAILY_30D |-> [num |-> q30, den |-> AvgDivisor]]]

(***************************************************************************)
(* Spec: main, from the glob to the last write                             *)
(***************************************************************************)
MaxFiles == 2

MaxRows == 1

\* The repository without reference files, and one with all five.
RepoPool ==
    {[prod |-> None, med |-> None, pac |-> None, rec |-> None, alm |-> None],
     [prod |-> Frame(<<"maxcod", "TextoBreveMedicamento">>,
                     <<<<Str(" 700 "), Str("Alcohol 70°")>>>>),
      med  |-> Frame(<<"CódigodelMédico", "NombredelMédico">>,
                     <<<<Str("27491.0"), Str("DR A")>>>>),
      pac  |-> Frame(<<"CédulaPaciente", "NombreyApellido">>,
                     <<<<Str("123"), Str("ANA")>>>>),
      rec  |-> Frame(<<"CédulaRecurrente", "NombreRecurrente">>,
                     <<<<Str("123"), Str("OTHER")>>, <<Str("456"), Str("LUIS")>>>>),
      alm  |-> Frame(<<"almacen_codigo;almacen_descripcion">>,
                     <<<<Str("1;DEPOSITO")>>>>)]}

\* A batch with all eight logical fields under synonyms, one with the three
\* required fields only, and one without a date column.
FullColumns == <<"Fecha", "COD_ITEM", "CANT", "ALMACEN", "SERVICIO", "COD_MEDICO", "CI",
                 "DESCRIPCION">>

FullRows ==
    {<<Str("2025-01-31"), Str("700.0"), Str("3"), Str("1.0"), Str("UTI"), Str("27491"),
       Str("123"), NaNCell>>,
     <<Str("2025-01-02"), Str("X9"), Str("s/d"), NaNCell, NaNCell, Str("27491,0"),
       Str("456"), Str("Jeringa 5 ml")>>,
     <<Str("sin fecha"), Str("700"), Str("2"), Str("1"), Str("UTI"), Str("27491"),
       Str("123"), Str("Alcohol")>>,
     <<Str("2025-01-25"), Str("X1"), Str("1,5"), Str("9"), Str("UTI"), NaNCell,
       NaNCell, Str("Paracetamol 500mg")>>}

RequiredColumns == <<"fec_receta", "maxcod", "qty">>

RequiredRows ==
    {<<Str("2025-01-20"), Str("700"), Str("4 u")>>,
     <<Str("2025-01-21"), Str("Q7"), Str("1")>>}

NoDateColumns == <<"COD_ITEM", "CANT", "SERVICIO">>

NoDateRows == {<<Str("700"), Str("1"), Str("UTI")>>}

BatchColumns == {FullColumns, RequiredColumns, NoDateColumns}

PoolRows(columns) ==
    IF columns = FullColumns THEN FullRows
    ELSE IF columns = RequiredColumns THEN RequiredRows
    ELSE NoDateRows

BatchPool ==
    UNION {{[columns |-> cs, rows |-> rows] : rows \in RowsUpTo(PoolRows(cs), MaxRows)} :
              cs \in BatchColumns}

\* infer_column_map and lines 274-289 on the header lists, lookups and rows
\* of the pools, evaluated once.
ColumnMapOf == [cs \in BatchColumns |-> infer_column_map(cs)]

EnrichedRowOf ==
    [lk \in {build_lookups(r) : r \in RepoPool} |->
        [cs \in {c \in BatchColumns : ~ColumnMapOf[c].raised} |->
            [row \in PoolRows(cs) |-> EnrichRow(cs, ColumnMapOf[cs].fields[1], lk, row)]]]

\* The frame d of a batch whose columns resolved, as line 289 leaves it.
Enrich(df, lk) == [i \in DOMAIN df.rows |-> EnrichedRowOf[lk][df.columns][df.rows[i]]]

\* The artifacts, in the order lines 368-378 write them.
Artifacts == <<"schema_report.json", "items.json", "kpi.json", "series_day.json",
               "agg_dim.json">>

Init ==
    /\ pc = "start"
    /\ repo = None /\ lookups = None
    /\ cols = <<>> /\ candidates = <<>> /\ found = None /\ cmap = None
    /\ IdleClassifier /\ IdleMain /\ IdleAggregates

\* Lines 226-228: the glob; no file is FileNotFoundError.
Discover ==
    /\ pc = "start"
    /\ \E n \in 0..MaxFiles :
          /\ parquet_files' = n
          /\ IF n = 0
             THEN pc' = "failed" /\ err' = Some([type |-> "FileNotFoundError", missing |-> <<>>])
             ELSE pc' = "lookups" /\ err' = err
    /\ UNCHANGED <<cols, candidates, found, cmap, product_name_norm, item, repo, lookups,
                   schema_samples, d, dfs, data, kpi, written>>

\* Line 230: the lookups, built from the reference files found.
Lookups ==
    /\ pc = "lookups"
    /\ \E r \in RepoPool : repo' = r /\ lookups' = build_lookups(r)
    /\ pc' = "batch"
    /\ UNCHANGED <<cols, candidates, found, cmap, product_name_norm, item, parquet_files,
                   schema_samples, d, dfs, data, kpi, written, err>>

\* A loop body that skips a batch whose required columns cannot be resolved.
ReadBatchSkippingUnresolved ==
    /\ pc = "batch"
    /\ \E df \in BatchPool :
          /\ schema_samples' = Append(schema_samples, [columns |-> df.columns])
          /\ cols' = df.columns
          /\ cmap' = ColumnMapOf[df.columns]
          /\ d' = IF cmap'.raised THEN <<>> ELSE Enrich(df, lookups)
          /\ dfs' = Append(dfs, FilterFrame(d'))
          /\ pc' = IF Len(dfs') = parquet_files THEN "aggregate" ELSE "batch"
          /\ err' = err
    /\ UNCHANGED <<candidates, found, product_name_norm, item, repo, lookups, parquet_files,
                   data, kpi, written>>

\* Lines 239-297: one batch read, resolved, enriched, filtered and appended;
\* an unresolved required column is ValueError.
ReadBatch ==
    /\ pc = "batch"
    /\ \E df \in BatchPool :
          /\ schema_samples' = Append(schema_samples, [columns |-> df.columns])
          /\ cols' = df.columns
          /\ cmap' = ColumnMapOf[df.columns]
          /\ IF cmap'.raised
             THEN /\ pc' = "failed"
                  /\ err' = Some([type |-> "ValueError", missing |-> cmap'.missing])
                  /\ UNCHANGED <<d, dfs>>
             ELSE /\ d' = Enrich(df, lookups)
                  /\ dfs' = Append(dfs, FilterFrame(d'))
                  /\ pc' = IF Len(dfs') = parquet_files THEN "aggregate" ELSE "batch"
                  /\ err' = err
    /\ UNCHANGED <<candidates, found, product_name_norm, item, repo, lookups, parquet_files,
                   data, kpi, written>>

\* Lines 299-366: the unified record set and the tables derived from it.
Aggregate ==
    /\ pc = "aggregate"
    /\ data' = Concat(dfs)
    /\ kpi' = KpiTable(data')
    /\ pc' = "write"
    /\ UNCHANGED <<cols, candidates, found, cmap, product_name_norm, item, repo, lookups,
                   parquet_files, schema_samples, d, dfs, written, err>>

\* Lines 368-378: the next artifact.
Write ==
    /\ pc = "write"
    /\ written' = Append(written, Artifacts[Len(written) + 1])
    /\ pc' = IF Len(written') = Len(Artifacts) THEN "done" ELSE "write"
    /\ UNCHANGED <<cols, candidates, found, cmap, product_name_norm, item, repo, lookups,
                   parquet_files, schema_samples, d, dfs, data, kpi, err>>

Next == Discover \/ Lookups \/ ReadBatch \/ Aggregate \/ Write

Spec == Init /\ [][Next]_vars

\* Whether every required logical field has a synonym among the headers, for
\* the header lists of the pool.
RequiredResolvable ==
    [cs \in BatchColumns |-> \A f \in Range(RequiredFields) : HasSynonym(f, cs)]

\* C10, in every state: an artifact is written only after at least one batch
\* matched and every matched batch resolved its required columns; a batch that
\* does not resolve ends the run there, before any write and before any later
\* batch; no batch is skipped; the lookups exist before the first batch.
C10_StateInvariant ==
    /\ written # <<>> =>
          /\ parquet_files >= 1 /\ err = None /\ lookups # None
          /\ Len(schema_samples) = parquet_files /\ Len(dfs) = parquet_files
          /\ \A i \in DOMAIN schema_samples : RequiredResolvable[schema_samples[i].columns]
    /\ \A i \in DOMAIN schema_samples :
          ~RequiredResolvable[schema_samples[i].columns] =>
              pc = "failed" /\ i = Len(schema_samples) /\ written = <<>>
    /\ (pc # "start" /\ parquet_files = 0) =>
          pc = "failed" /\ schema_samples = <<>> /\ written = <<>>
    /\ pc = "failed" => err # None /\ written = <<>>
    /\ pc \in {"batch", "aggregate", "write", "done"} => Len(dfs) = Len(schema_samples)
    /\ schema_samples # <<>> => lookups # None

\* C10: the state invariant above in every state; a failed run takes no
\* further step; the lookups, once built, are never modified.
C10_NoWriteUnlessAllBatchesResolve ==
    /\ []C10_StateInvariant
    /\ [][pc # "failed" /\ (lookups # None => lookups' = lookups)]_vars

\* The second batch of two lacks a required column: the run has failed with
\* nothing written.
C10_Witness ==
    /\ pc = "failed" /\ Len(schema_samples) = 2
    /\ RequiredResolvable[schema_samples[1].columns]
    /\ ~RequiredResolvable[schema_samples[2].columns]
    /\ Len(dfs) = 1 /\ written = <<>>

ValueOrCode(lookup, code) == IF code \in DOMAIN lookup THEN lookup[code] ELSE code

C8_NullCodeCleansToEmpty ==
    (cmap # None /\ ~cmap.raised) =>
        \A i \in DOMAIN d : \A f \in {"COD_MEDICO", "ID_PACIENTE", "ALMACEN"} :
            /\ cmap.fields[1][f] = None => d[i][f] = ""
            /\ d[i][f] \notin {"None", "nan"}

(***************************************************************************)
(* SpecKpi: the KPI table of every unified record set of the pools         *)
(***************************************************************************)
MaxData == 3

\* Days 25..31 are the 7-day window and 2..31 the 30-day window when day 31
\* is present.
KpiDays == {1, 2, 24, 25, 31}

KpiRows ==
    [FECHA : {Some(x) : x \in KpiDays},
     ITEM_CRITICO : {Some("ALCOHOL"), Some("GUANTES")},
     CANTIDAD : {None, Some(100), Some(250)}]

InitKpi ==
    /\ pc = "call"
    /\ data \in SeqsUpTo(KpiRows, MaxData)
    /\ kpi = <<>>
    /\ IdleResolver /\ IdleClassifier /\ IdleLookups /\ IdleMain

ComputeKpi ==
    /\ pc = "call"
    /\ kpi' = KpiTable(data)
    /\ pc' = "done"
    /\ UNCHANGED <<cols, candidates, found, cmap, product_name_norm, item, repo, lookups,
                   parquet_files, schema_samples, d, dfs, data, written, err>>

NextKpi == ComputeKpi

SpecKpi == InitKpi /\ [][NextKpi]_vars

\* The sum of the quantities of the rows with an index in S.
RECURSIVE SumAt(_, _)
SumAt(rows, S) ==
    IF S = {} THEN 0
    ELSE LET i == CHOOSE x \in S : TRUE
         IN  (IF rows[i].CANTIDAD = None THEN 0 ELSE rows[i].CANTIDAD[1])
             + SumAt(rows, S \ {i})

====
